---- MODULE Spec2Model ----
(***************************************************************************)
(* Model of the feedback command of azure-cli                              *)
(* (azure/cli/command_modules/feedback/custom.py): the command log file    *)
(* name and log line parsers, the ErrorMinifier and the issue URL builder. *)
(*                                                                         *)
(* A Python str is modelled as a sequence of text pieces.  A piece is a    *)
(* TLA+ string holding the characters it stands for: one character         *)
(* ("a", ",", "/", "\n", ...) or a whole keyword the code searches for     *)
(* ("File", "line", ".py", "During handling of the above exception", ...). *)
(* The length of a str is the number of characters of its pieces, so every *)
(* length the code compares with a capacity is the Python len().           *)
(* os.path is posixpath.                                                   *)
(***************************************************************************)
EXTENDS Integers, Sequences, FiniteSets, TLC

(***************************************************************************)
(* Python str primitives on sequences of pieces                            *)
(***************************************************************************)
RECURSIVE StrLen(_)
\* len(s)
StrLen(s) ==
    IF s = <<>> THEN 0 ELSE Len(Head(s)) + StrLen(Tail(s))

\* s.find(t) for a single piece t, 1-based, 0 when absent
FirstIdx(s, t) ==
    IF \E i \in 1..Len(s) : s[i] = t
    THEN CHOOSE i \in 1..Len(s) : s[i] = t /\ \A j \in 1..(i - 1) : s[j] # t
    ELSE 0

\* s.rfind(t) for a single piece t, 1-based, 0 when absent
LastIdx(s, t) ==
    IF \E i \in 1..Len(s) : s[i] = t
    THEN CHOOSE i \in 1..Len(s) : s[i] = t /\ \A j \in (i + 1)..Len(s) : s[j] # t
    ELSE 0

\* p in s
Contains(s, p) ==
    \E i \in 1..(Len(s) - Len(p) + 1) : SubSeq(s, i, i + Len(p) - 1) = p

\* s.startswith(p)
StartsWith(s, p) ==
    Len(s) >= Len(p) /\ SubSeq(s, 1, Len(p)) = p

RECURSIVE Replace(_, _, _)
\* s.replace(p, r), p not empty: leftmost non-overlapping occurrences
Replace(s, p, r) ==
    IF Len(s) < Len(p) THEN s
    ELSE IF SubSeq(s, 1, Len(p)) = p
         THEN r \o Replace(SubSeq(s, Len(p) + 1, Len(s)), p, r)
         ELSE <<Head(s)>> \o Replace(Tail(s), p, r)

IsSpace(t) == t \in {" ", "\n"}

RECURSIVE LStrip(_)
LStrip(s) ==
    IF s # <<>> /\ IsSpace(Head(s)) THEN LStrip(Tail(s)) ELSE s

RECURSIVE RStrip(_)
RStrip(s) ==
    IF s # <<>> /\ IsSpace(s[Len(s)]) THEN RStrip(SubSeq(s, 1, Len(s) - 1)) ELSE s

\* s.strip()
Strip(s) == RStrip(LStrip(s))

RECURSIVE Join(_, _)
\* sep.join(list)
Join(list, sep) ==
    IF list = <<>> THEN <<>>
    ELSE IF Len(list) = 1 THEN list[1]
    ELSE list[1] \o sep \o Join(Tail(list), sep)

RECURSIVE Split(_, _)
\* s.split(t) for a single piece t: always at least one part
Split(s, t) ==
    LET i == FirstIdx(s, t)
    IN  IF i = 0 THEN <<s>>
        ELSE <<SubSeq(s, 1, i - 1)>> \o Split(SubSeq(s, i + 1, Len(s)), t)

RECURSIVE SplitLines(_)
\* s.splitlines(): no empty last line after a final line break
SplitLines(s) ==
    LET i == FirstIdx(s, "\n")
    IN  IF s = <<>> THEN <<>>
        ELSE IF i = 0 THEN <<s>>
        ELSE <<SubSeq(s, 1, i - 1)>> \o SplitLines(SubSeq(s, i + 1, Len(s)))

(***************************************************************************)
(* posixpath                                                               *)
(***************************************************************************)
\* os.path.basename(p)
Basename(p) == SubSeq(p, LastIdx(p, "/") + 1, Len(p))

RECURSIVE RStripSlash(_)
RStripSlash(s) ==
    IF s # <<>> /\ s[Len(s)] = "/" THEN RStripSlash(SubSeq(s, 1, Len(s) - 1)) ELSE s

\* os.path.dirname(p)
Dirname(p) ==
    LET head == SubSeq(p, 1, LastIdx(p, "/"))
    IN  IF head # <<>> /\ \E i \in 1..Len(head) : head[i] # "/"
        THEN RStripSlash(head)
        ELSE head

\* os.path.join(a, b)
PathJoin(a, b) ==
    IF StartsWith(b, <<"/">>) THEN b
    ELSE IF a = <<>> \/ a[Len(a)] = "/" THEN a \o b
    ELSE a \o <<"/">> \o b

(***************************************************************************)
(* ErrorMinifier: the strategies                                           *)
(***************************************************************************)
\* ErrorMinifier._CONTINUATION_STR
CONTINUATION_STR == <<"...", "\n">>

NESTED_MARKER == "During handling of the above exception"

TRACEBACK_NOTE == "here is the traceback"

RECURSIVE ShortenLoop(_, _, _)
\* the for loop of _shorten_file_name: one more parent directory per round
ShortenLoop(new_name, file_name, rounds) ==
    IF rounds = 0 THEN new_name
    ELSE ShortenLoop(PathJoin(Basename(file_name), new_name),
                     Dirname(file_name), rounds - 1)

shorten_file_name(file_name, levels) ==
    IF levels > 0
    THEN ShortenLoop(Basename(file_name), Dirname(file_name), levels - 1)
    ELSE file_name

\* _FILE_RE.search(s): File "(.*)" with the greedy group ending at the last
\* quote of s
FileReSearch(s) ==
    LET starts == {i \in 1..(Len(s) - 2) :
                       SubSeq(s, i, i + 2) = <<"File", " ", "\"">>}
        first  == CHOOSE i \in starts : \A j \in starts : i <= j
        last   == LastIdx(s, "\"")
    IN  IF starts # {} /\ last >= first + 3
        THEN [matched |-> TRUE, group |-> SubSeq(s, first + 3, last - 1)]
        ELSE [matched |-> FALSE, group |-> <<>>]

\* the body of the loop of _minify_by_shortening_file_names: the lines that
\* one line contributes to new_lines (none when the line is removed)
ShortenLine(line, levels) ==
    LET parts == Split(line, ",")
        match == FileReSearch(parts[1])
    IN  IF StartsWith(Strip(line), <<"File">>) /\ Contains(line, <<",", " ", "line">>)
        THEN IF match.matched
             THEN <<Join([parts EXCEPT
                            ![1] = shorten_file_name(match.group, levels),
                            ![2] = Replace(parts[2], <<"line">>, <<"ln">>)],
                         <<",">>)>>
             ELSE <<Join(parts, <<",">>)>>
        ELSE IF Contains(line, <<".py">>) /\ Contains(line, <<",", " ", "ln">>)
        THEN <<Join([parts EXCEPT ![1] = shorten_file_name(parts[1], levels)],
                    <<",">>)>>
        ELSE IF Contains(line, <<TRACEBACK_NOTE>>)
        THEN <<>>
        ELSE <<line>>

RECURSIVE ShortenLines(_, _)
ShortenLines(lines, levels) ==
    IF lines = <<>> THEN <<>>
    ELSE ShortenLine(Head(lines), levels) \o ShortenLines(Tail(lines), levels)

minify_by_shortening_file_names(error_string, levels) ==
    Join(ShortenLines(SplitLines(error_string), levels), <<"\n">>)

\* lines[-3:]
LastThree(lines) ==
    SubSeq(lines, IF Len(lines) > 3 THEN Len(lines) - 2 ELSE 1, Len(lines))

minify_by_removing_nested_exceptions(error_string) ==
    LET lines  == SplitLines(error_string)
        marked == {i \in 1..Len(lines) : Contains(lines[i], <<NESTED_MARKER>>)}
        \* 1-based position of the first marker line, else of the last line
        idx    == IF marked = {} THEN Len(lines)
                  ELSE CHOOSE i \in marked : \A j \in marked : i <= j
    IN  IF idx = Len(lines) THEN error_string
        ELSE Join(SubSeq(lines, 1, idx - 1) \o <<CONTINUATION_STR>> \o LastThree(lines),
                  <<"\n">>)

\* mid before lines[mid] is read (0-based, as in the code)
RemovingMid(lines) == (Len(lines) \div 2) + 1

\* lines[mid] is out of range: _minify_by_removing_lines raises IndexError
removing_lines_raises(error_string) ==
    LET lines == SplitLines(Replace(error_string, CONTINUATION_STR, <<>>))
    IN  RemovingMid(lines) >= Len(lines)

minify_by_removing_lines(error_string) ==
    LET lines == SplitLines(Replace(error_string, CONTINUATION_STR, <<>>))
        mid0  == RemovingMid(lines)
        mid   == IF Contains(lines[mid0 + 1], <<".py">>)
                    /\ Contains(lines[mid0 + 1], <<",", " ", "ln">>)
                 THEN mid0 ELSE mid0 - 1
        \* what the 0-based line i contributes to new_lines
        keep(i) == (IF i = mid THEN <<Strip(CONTINUATION_STR)>> ELSE <<>>)
                   \o (IF i \in mid..(mid + 3) THEN <<>> ELSE <<lines[i + 1]>>)
        new_lines[i \in 0..Len(lines)] ==
            IF i = 0 THEN <<>> ELSE new_lines[i - 1] \o keep(i - 1)
    IN  Join(new_lines[Len(lines)], <<"\n">>)

(***************************************************************************)
(* ErrorMinifier: the object and _get_minified_errors, one step per        *)
(* strategy attempt                                                        *)
(***************************************************************************)
VARIABLES
    errors_list,     \* ErrorMinifier._errors_list, rewritten in place
    capacity,        \* ErrorMinifier._capacity
    minified_error,  \* ErrorMinifier._minified_error
    errors_string,   \* the local errors_string of _get_minified_errors
    pc,              \* "new", the next strategy of a running call, "returned", "raised"
    attempts,        \* history: the strategy attempts of the call and their outputs
    orig_list,       \* history: the errors the minifier was constructed with
    call_list,       \* history: _errors_list when the call started
    upc,             \* position in _build_issue_info_tup
    env,             \* the rest of the issue: the fields other than the errors
    url_capacity,    \* the local capacity of _build_issue_info_tup
    tries,           \* the local tries of _build_issue_info_tup
    url_len,         \* len(formatted_issues_url)
    warned,          \* the "Failed to properly minify issue url" warning was logged
    fpc,             \* position in _get_command_log_files
    file_name,       \* the file name of the running loop of _get_command_log_files
    files_seen,      \* history: how many files the loop has taken
    command_log_files, \* the list _get_command_log_files builds
    invalid_noted,   \* the last file was logged as an invalid command log file
    lpc,             \* position in _get_log_record_list
    p_id,            \* the process id of the command, from the file name
    log_lines,       \* the lines of the command log file
    line_no,         \* how many lines the loop has read
    log_record,      \* what _get_info_from_log_line returned for the last line
    prev_record,     \* the local prev_record
    log_record_list, \* the local log_record_list
    log_data,        \* CommandLogFile._data, the command data dict
    command_status,  \* what get_command_status() returned
    command_failed,  \* what failed() returned
    repeated,        \* history: set_capacity was called again with the same capacity
    first_minified,  \* history: _minified_error after the first of the two calls
    hpc,             \* position in handle_feedback and _prompt_issue
    recent_command_list, \* what _display_recent_commands returned
    ans,             \* the local ans of _prompt_issue
    prompts,         \* history: how many times the user was prompted
    built_from,      \* history: the command log the issue was built from
    browser_opened,  \* history: how many times open_page_in_browser was called
    thanked          \* history: the thank-you message was printed

minvars == <<errors_list, capacity, minified_error, errors_string, pc,
             attempts, orig_list, call_list>>

urlvars == <<upc, env, url_capacity, tries, url_len, warned>>

filevars == <<fpc, file_name, files_seen, command_log_files, invalid_noted>>

logvars == <<lpc, p_id, log_lines, line_no, log_record, prev_record,
             log_record_list>>

datavars == <<log_data, command_status, command_failed>>

twicevars == <<repeated, first_minified>>

feedvars == <<hpc, recent_command_list, ans, prompts, built_from,
              browser_opened, thanked>>

vars == <<minvars, urlvars, filevars, logvars, datavars, twicevars, feedvars>>

\* ans before the first prompt of the loop over the listed commands
NoAnswer == [text |-> "", number |-> -1]

\* handle_feedback is not running
NoFeedback ==
    /\ hpc = "none"
    /\ recent_command_list = <<>>
    /\ ans = NoAnswer
    /\ prompts = 0
    /\ built_from = -1
    /\ browser_opened = 0
    /\ thanked = FALSE

\* set_capacity has not been called a second time
NoRepeat ==
    /\ repeated = FALSE
    /\ first_minified = <<>>

\* None where a log record is expected
NoRecord == [kind |-> "None"]

\* the empty dict
EmptyDict ==
    [keys |-> {}, success |-> FALSE, errors |-> <<>>, extension_name |-> <<>>,
     extension_version |-> <<>>, command_args |-> <<>>]

\* the command data of the file has not been asked for
NoData ==
    /\ log_data = EmptyDict
    /\ command_status = "None"
    /\ command_failed = FALSE

\* no command log file is being read
NoLog ==
    /\ NoData
    /\ lpc = "none"
    /\ p_id = 0
    /\ log_lines = <<>>
    /\ line_no = 0
    /\ log_record = NoRecord
    /\ prev_record = NoRecord
    /\ log_record_list = <<>>

\* self._capacity before the first set_capacity
None == "None"

\* mutant: the test lets one character too many through
WithinCapacityOffByOne(s, c) == StrLen(s) <= c + 1

\* the tests "len(errors_string) <= self._capacity" that end a call
WithinCapacity(s, c) == StrLen(s) <= c

\* mutant: the loop test inverted, so the loop never shortens a long string
OverCapacityInverted(s, c) == StrLen(s) < c

\* the test of the last resort loop
OverCapacity(s, c) == StrLen(s) > c

\* mutant: the two shortening passes swapped (4 segments first, then 5)
ShortenedSwapped(list, levels) ==
    [i \in 1..Len(list) |-> minify_by_shortening_file_names(list[i], 9 - levels)]

\* errors_list[i] = op(error) for every entry
Shortened(list, levels) ==
    [i \in 1..Len(list) |-> minify_by_shortening_file_names(list[i], levels)]

Unnested(list) ==
    [i \in 1..Len(list) |-> minify_by_removing_nested_exceptions(list[i])]

\* ErrorMinifier(errors_list)
Construct(list) ==
    /\ errors_list = list
    /\ orig_list = list
    /\ call_list = list
    /\ capacity = None
    /\ minified_error = Join(list, <<"\n">>)
    /\ errors_string = <<>>
    /\ attempts = <<>>
    /\ pc = "new"

\* one strategy attempt: the errors as rewritten, joined, returned when
\* the result is within the capacity
Attempt(strategy, new_list, next) ==
    LET joined == Join(new_list, <<"\n">>)
    IN  /\ errors_list' = new_list
        /\ errors_string' = joined
        /\ attempts' = Append(attempts, [strategy |-> strategy, out |-> joined])
        /\ IF WithinCapacity(joined, capacity)
           THEN minified_error' = joined /\ pc' = "returned"
           ELSE pc' = next /\ UNCHANGED minified_error
        /\ UNCHANGED orig_list

\* set_capacity(c) up to the first test of _get_minified_errors
set_capacity(c) ==
    /\ capacity' = c
    /\ call_list' = errors_list
    /\ attempts' = <<[strategy |-> "join", out |-> Join(errors_list, <<"\n">>)]>>
    /\ errors_string' = Join(errors_list, <<"\n">>)
    /\ errors_list' = errors_list
    /\ IF errors_list = <<>>
       THEN minified_error' = <<>> /\ pc' = "returned"
       ELSE IF WithinCapacity(errors_string', c)
       THEN minified_error' = errors_string' /\ pc' = "returned"
       ELSE pc' = "short5" /\ UNCHANGED minified_error
    /\ UNCHANGED orig_list

ShortenFileNames5 ==
    /\ pc = "short5"
    /\ Attempt("short5", Shortened(errors_list, 5), "short4")
    /\ UNCHANGED <<capacity, call_list>>

ShortenFileNames4 ==
    /\ pc = "short4"
    /\ Attempt("short4", Shortened(errors_list, 4), "nested")
    /\ UNCHANGED <<capacity, call_list>>

RemoveNestedExceptions ==
    /\ pc = "nested"
    /\ Attempt("nested", Unnested(errors_list), "lines")
    /\ UNCHANGED <<capacity, call_list>>

\* the last resort loop: one test of the loop condition and, when it holds,
\* one round of _minify_by_removing_lines
RemoveLines ==
    /\ pc = "lines"
    /\ IF OverCapacity(errors_string, capacity)
       THEN IF removing_lines_raises(errors_string)
            THEN /\ pc' = "raised"
                 /\ UNCHANGED <<errors_string, attempts, minified_error>>
            ELSE /\ errors_string' = minify_by_removing_lines(errors_string)
                 /\ attempts' = Append(attempts,
                        [strategy |-> "lines", out |-> errors_string'])
                 /\ UNCHANGED <<pc, minified_error>>
       ELSE /\ minified_error' = errors_string
            /\ pc' = "returned"
            /\ UNCHANGED <<errors_string, attempts>>
    /\ UNCHANGED <<errors_list, capacity, orig_list, call_list>>

MinifierStep ==
    /\ \/ ShortenFileNames5
       \/ ShortenFileNames4
       \/ RemoveNestedExceptions
       \/ RemoveLines
    /\ UNCHANGED <<urlvars, filevars, logvars, datavars, twicevars, feedvars>>

(***************************************************************************)
(* _build_issue_info_tup and _get_minified_issue_url.  Of the issue body   *)
(* and the URL the code reads only the lengths, so the fields of the issue *)
(* other than the errors are two numbers: their length and their length    *)
(* once URL-encoded.                                                       *)
(***************************************************************************)
MAX_URL_LENGTH == 2035

\* len(_ISSUES_TEMPLATE.format(...)) with every field empty
TEMPLATE_LEN == 428

\* len(quote_plus(_ISSUES_TEMPLATE.format(...))) with every field empty
TEMPLATE_ENC == 580

\* the code fence of ErrorMinifier.__str__, three backquotes; written with
\* three quotes, which are as long and are URL-encoded the same way
FENCE == "'''"

\* len(quote_plus(t)) of one piece: letters, digits and "." stay, a space
\* becomes "+", every other character becomes %XX
QuoteLen(t) ==
    IF t \in {"\n", ",", "/", "\"", FENCE} THEN 3 * Len(t) ELSE Len(t)

RECURSIVE QuoteStrLen(_)
QuoteStrLen(s) ==
    IF s = <<>> THEN 0 ELSE QuoteLen(Head(s)) + QuoteStrLen(Tail(s))

\* ErrorMinifier.__str__
ErrorMinifierStr(minified) ==
    IF minified # <<>>
    THEN <<FENCE, "\n">> \o Strip(minified) \o <<"\n", FENCE>>
    ELSE <<>>

\* format_dict["errors_string"] as formatted into the template: the minifier
\* when the command log has data, else ""
ErrorsField(e, minified) ==
    IF e.has_minifier THEN ErrorMinifierStr(minified) ELSE <<>>

\* len(no_errors_issue_body)
NoErrorsBodyLen(e) == TEMPLATE_LEN + e.other_len

\* the raw issues URL of _get_minified_issue_url
RawIssuesUrlLen(e) ==
    IF e.is_ext
    THEN Len("https://github.com/Azure/azure-cli-extensions/issues/new")
    ELSE Len("https://github.com/Azure/azure-cli/issues/new")

\* len("{}?{}".format(formatted_issues_url, urlencode(query_dict)))
IssueUrlLen(e, minified) ==
    RawIssuesUrlLen(e) + Len("?") + Len("body=")
    + TEMPLATE_ENC + e.other_enc + QuoteStrLen(ErrorsField(e, minified))
    + (IF e.failed THEN Len("&template=Bug_report.md") ELSE 0)

\* mutant: the over-long URL is kept as it is
TruncatedLenUncut(n) == n

\* len(formatted_issues_url[:_MAX_URL_LENGTH]) when the URL is too long
TruncatedLen(n) == IF n > MAX_URL_LENGTH THEN MAX_URL_LENGTH ELSE n

\* no issue is being built
NoIssue ==
    /\ upc = "none"
    /\ env = [has_minifier |-> FALSE, failed |-> FALSE, is_ext |-> FALSE,
              other_len |-> 0, other_enc |-> 0]
    /\ url_capacity = 0
    /\ tries = 0
    /\ url_len = 0
    /\ warned = FALSE

\* _build_issue_info_tup up to "First try"
BuildStart(e) ==
    /\ upc = "first"
    /\ env = e
    /\ url_capacity = MAX_URL_LENGTH
    /\ tries = 0
    /\ url_len = 0
    /\ warned = FALSE

\* _get_minified_issue_url up to and including the call of set_capacity
GetMinifiedIssueUrl ==
    /\ upc \in {"first", "retry"}
    /\ IF env.has_minifier
       THEN set_capacity(url_capacity - NoErrorsBodyLen(env))
       ELSE UNCHANGED minvars
    /\ upc' = IF upc = "first" THEN "first_format" ELSE "retry_format"
    /\ UNCHANGED <<env, url_capacity, tries, url_len, warned>>

\* mutant: the capacity is left as it was after an attempt
FormatIssueUrlSameCapacity ==
    /\ upc \in {"first_format", "retry_format"}
    /\ env.has_minifier => pc = "returned"
    /\ url_len' = IssueUrlLen(env, minified_error)
    /\ url_capacity' = url_capacity
    /\ tries' = IF upc = "first_format" THEN 0 ELSE tries + 1
    /\ upc' = IF url_len' > MAX_URL_LENGTH /\ tries' < 25 THEN "retry" ELSE "truncate"
    /\ UNCHANGED <<env, warned>>
    /\ UNCHANGED minvars

\* the rest of _get_minified_issue_url, the capacity update after it and the
\* test of the retry loop
FormatIssueUrl ==
    /\ upc \in {"first_format", "retry_format"}
    /\ env.has_minifier => pc = "returned"
    /\ url_len' = IssueUrlLen(env, minified_error)
    /\ url_capacity' = url_capacity - (url_len' - MAX_URL_LENGTH)
    /\ tries' = IF upc = "first_format" THEN 0 ELSE tries + 1
    /\ upc' = IF url_len' > MAX_URL_LENGTH /\ tries' < 25 THEN "retry" ELSE "truncate"
    /\ UNCHANGED <<env, warned>>
    /\ UNCHANGED minvars

\* the IndexError of _minify_by_removing_lines leaves _build_issue_info_tup:
\* nothing on the way catches it
PropagateIndexError ==
    /\ upc \in {"first_format", "retry_format"}
    /\ pc = "raised"
    /\ upc' = "raised"
    /\ UNCHANGED <<env, url_capacity, tries, url_len, warned>>
    /\ UNCHANGED minvars

\* the truncation and the warning, then the return
TruncateAndReturn ==
    /\ upc = "truncate"
    /\ url_len' = TruncatedLen(url_len)
    /\ warned' = (url_len > MAX_URL_LENGTH)
    /\ upc' = "done"
    /\ UNCHANGED <<env, url_capacity, tries>>
    /\ UNCHANGED minvars

(***************************************************************************)
(* CommandLogFile._get_command_metadata_from_file and                      *)
(* _get_command_log_files.  A file name is the sequence of its             *)
(* dot-delimited fields, file_name.split("."); a field is one of the       *)
(* strings of FileNameFields.                                              *)
(***************************************************************************)
FileNameFields == {"2019-06-01", "12-30-59", "vm_create", "1234", "log"}

\* datetime.strptime("{}-{}".format(poss_date, poss_time), "%Y-%m-%d-%H-%M-%S")
\* succeeds, for fields of FileNameFields
StrptimeOk(poss_date, poss_time) ==
    poss_date = "2019-06-01" /\ poss_time = "12-30-59"

\* int(field) succeeds, for the fields and pieces of the model
IntOk(field) == field \in {"1234", "99"}

\* int(field) where it succeeds
IntOf(field) == IF field = "1234" THEN 1234 ELSE 99

\* file_name.endswith(".log")
EndsWithLog(name) == Len(name) >= 2 /\ name[Len(name)] = "log"

\* the order of str on the fields of FileNameFields
FieldRank(field) ==
    CASE field = "12-30-59"   -> 1
      [] field = "1234"       -> 2
      [] field = "2019-06-01" -> 3
      [] field = "log"        -> 4
      [] field = "vm_create"  -> 5

\* a < b for the file names a and b, as sorted() compares them
NameLess(a, b) ==
    \E i \in 1..Len(b) :
        /\ \A j \in 1..(i - 1) : j <= Len(a) /\ a[j] = b[j]
        /\ \/ i = Len(a) + 1
           \/ i <= Len(a) /\ FieldRank(a[i]) < FieldRank(b[i])

\* _get_command_metadata_from_file: the metadata tuple, None, or the
\* ValueError of int(poss_pid), which is outside the try
get_command_metadata_from_file(name) ==
    IF Len(name) # 5 THEN [kind |-> "None"]
    ELSE IF ~StrptimeOk(name[1], name[2]) THEN [kind |-> "None"]
    ELSE IF ~IntOk(name[4]) THEN [kind |-> "ValueError"]
    ELSE [kind |-> "metadata", cmd |-> name[3], p_id |-> IntOf(name[4])]

NoListing ==
    /\ fpc = "none"
    /\ file_name = <<>>
    /\ files_seen = 0
    /\ command_log_files = <<>>
    /\ invalid_noted = FALSE

\* _get_command_log_files up to the loop
ListStart ==
    /\ fpc = "loop"
    /\ file_name = <<>>
    /\ files_seen = 0
    /\ command_log_files = <<>>
    /\ invalid_noted = FALSE

MaxFields == 5
MaxFiles == 3

\* the names a directory can hold
FileNames == UNION {[1..n -> FileNameFields] : n \in 1..MaxFields}

\* one round of the loop over the sorted ".log" names of the directory: the
\* next name is a ".log" name after the one before
TakeFile ==
    /\ fpc = "loop"
    /\ files_seen < MaxFiles
    /\ \E name \in {n \in FileNames : EndsWithLog(n)} :
          /\ file_name # <<>> => NameLess(file_name, name)
          /\ file_name' = name
          /\ LET metadata == get_command_metadata_from_file(name)
             IN  CASE metadata.kind = "ValueError" ->
                        /\ fpc' = "raised"
                        /\ UNCHANGED <<command_log_files, invalid_noted>>
                   [] metadata.kind = "metadata" ->
                        /\ command_log_files' = Append(command_log_files, name)
                        /\ invalid_noted' = FALSE
                        /\ UNCHANGED fpc
                   [] metadata.kind = "None" ->
                        /\ invalid_noted' = TRUE
                        /\ UNCHANGED <<fpc, command_log_files>>
    /\ files_seen' = files_seen + 1

\* the end of the loop and the return
ReturnFiles ==
    /\ fpc = "loop"
    /\ fpc' = "returned"
    /\ UNCHANGED <<file_name, files_seen, command_log_files, invalid_noted>>

InitFiles ==
    /\ NoRepeat
    /\ NoFeedback
    /\ ListStart
    /\ Construct(<<>>)
    /\ NoIssue
    /\ NoLog

NextFiles ==
    \/ TakeFile /\ UNCHANGED <<minvars, urlvars, logvars, datavars, twicevars, feedvars>>
    \/ ReturnFiles /\ UNCHANGED <<minvars, urlvars, logvars, datavars, twicevars, feedvars>>

SpecFiles == InitFiles /\ [][NextFiles]_vars

\* the five-field convention: date, time, command, process id, extension
FollowsConvention(name) ==
    /\ Len(name) = 5
    /\ StrptimeOk(name[1], name[2])
    /\ IntOk(name[4])
    /\ name[5] = "log"

\* C4: _get_command_log_files never raises on a ".log" file name: a name
\* that does not follow the five-field convention is left out of the result
\* with a debug note, and the result holds exactly the names that follow it.
C4_MalformedNamesSkipped ==
    /\ fpc # "raised"
    /\ files_seen > 0 =>
          /\ invalid_noted = ~FollowsConvention(file_name)
          /\ \A i \in 1..Len(command_log_files) :
                 FollowsConvention(command_log_files[i])
          /\ FollowsConvention(file_name) =>
                 command_log_files[Len(command_log_files)] = file_name

(***************************************************************************)
(* CommandLogFile._get_info_from_log_line and _get_log_record_list.  A     *)
(* line is a sequence of pieces; _CMD_LOG_LINE_PREFIX is one piece.        *)
(***************************************************************************)
CMD_LOG_LINE_PREFIX == "CMD-LOG-LINE-BEGIN"

RECURSIVE SplitMax(_, _, _)
\* s.split(t, maxsplit) for a single piece t
SplitMax(s, t, maxsplit) ==
    LET i == FirstIdx(s, t)
    IN  IF i = 0 \/ maxsplit = 0 THEN <<s>>
        ELSE <<SubSeq(s, 1, i - 1)>>
             \o SplitMax(SubSeq(s, i + 1, Len(s)), t, maxsplit - 1)

\* int(s) succeeds, for a str of pieces
IntOkStr(s) == Len(s) = 1 /\ IntOk(s[1])

\* parts[-1] once stripped, with the newline the code adds at its end
WithNewline(s) ==
    IF s # <<>> /\ s[Len(s)] = "\n" THEN s ELSE s \o <<"\n">>

\* _get_info_from_log_line: a record, None, or the ValueError of
\* int(parts[0])
get_info_from_log_line(line, pid) ==
    LET rest  == SubSeq(line, 2, Len(line))
        parts == SplitMax(rest, "|", 4)
    IN  IF ~StartsWith(line, <<CMD_LOG_LINE_PREFIX>>) THEN NoRecord
        ELSE IF Len(parts) # 5 THEN NoRecord
        ELSE IF ~IntOkStr(Strip(parts[1])) THEN [kind |-> "ValueError"]
        ELSE IF IntOf(Strip(parts[1])[1]) # pid THEN NoRecord
        ELSE [kind |-> "record",
              p_id |-> IntOf(Strip(parts[1])[1]),
              date_time |-> Strip(parts[2]),
              level |-> Strip(parts[3]),
              logger |-> Strip(parts[4]),
              log_msg |-> WithNewline(Strip(parts[5]))]

\* mutant: the continuation line replaces the message
ContinuedReplacing(record, line) ==
    [record EXCEPT !.log_msg = line]

\* prev_record with a continuation line added to its message
Continued(record, line) ==
    [record EXCEPT !.log_msg = @ \o line]

\* _get_log_record_list(log_fp, p_id) up to the loop
RecordListStart(lines, pid) ==
    /\ lpc = "loop"
    /\ p_id = pid
    /\ log_lines = lines
    /\ line_no = 0
    /\ log_record = NoRecord
    /\ prev_record = NoRecord
    /\ log_record_list = <<>>

\* one round of the loop over the lines of the file
ReadLine ==
    /\ lpc = "loop"
    /\ line_no < Len(log_lines)
    /\ line_no' = line_no + 1
    /\ LET line == log_lines[line_no + 1]
           info == get_info_from_log_line(line, p_id)
       IN  /\ log_record' = info
           /\ CASE info.kind = "ValueError" ->
                     /\ lpc' = "raised"
                     /\ UNCHANGED <<prev_record, log_record_list>>
                [] info.kind = "record" ->
                     /\ log_record_list' =
                            IF prev_record.kind = "record"
                            THEN Append(log_record_list, prev_record)
                            ELSE log_record_list
                     /\ prev_record' = info
                     /\ UNCHANGED lpc
                [] info.kind = "None" ->
                     /\ prev_record' =
                            IF prev_record.kind = "record"
                            THEN Continued(prev_record, line)
                            ELSE prev_record
                     /\ UNCHANGED <<lpc, log_record_list>>
    /\ UNCHANGED <<p_id, log_lines>>

\* the end of the file: the last record is added and the list returned
EndOfLines ==
    /\ lpc = "loop"
    /\ line_no = Len(log_lines)
    /\ log_record_list' =
           IF prev_record.kind = "record"
           THEN Append(log_record_list, prev_record)
           ELSE log_record_list
    /\ lpc' = "built"
    /\ UNCHANGED <<p_id, log_lines, line_no, log_record, prev_record>>

(***************************************************************************)
(* SpecLog: the record list of one command log file                        *)
(***************************************************************************)
MaxLogLines == 4

\* a line in the layout of the command log: prefix, process id, time,
\* level, logger name, message
RecordLine(pid, level, msg) ==
    <<CMD_LOG_LINE_PREFIX, " ", pid, " ", "|", " ", "t", " ", "|", " ", level,
      " ", "|", " ", "n", " ", "|", " ">> \o msg \o <<"\n">>

LogLineShapes ==
    {RecordLine(pid, level, <<"m">>) :
        pid \in {"1234", "99", "x"}, level \in {"ERROR", "INFO"}}
    \cup {RecordLine("1234", "ERROR", <<"m", " ", "|", " ", "m">>)}
    \* the prefix and four fields
    \cup {<<CMD_LOG_LINE_PREFIX, " ", "1234", " ", "|", " ", "t", " ", "|", " ",
            "ERROR", " ", "|", " ", "m", "\n">>}
    \* no prefix
    \cup {<<"m", "\n">>,
          <<"1234", " ", "|", " ", "t", " ", "|", " ", "ERROR", " ", "|", " ",
            "n", " ", "|", " ", "m", "\n">>}

LogFiles == UNION {[1..n -> LogLineShapes] : n \in 0..MaxLogLines}

InitLog ==
    /\ NoRepeat
    /\ NoFeedback
    /\ \E lines \in LogFiles : RecordListStart(lines, IntOf("1234"))
    /\ NoData
    /\ Construct(<<>>)
    /\ NoIssue
    /\ NoListing

NextLog ==
    \/ ReadLine /\ UNCHANGED <<minvars, urlvars, filevars, datavars, twicevars, feedvars>>
    \/ EndOfLines /\ UNCHANGED <<minvars, urlvars, filevars, datavars, twicevars, feedvars>>

SpecLog == InitLog /\ [][NextLog]_vars

(***************************************************************************)
(* CommandLogFile._get_command_data_from_metadata after the record list,   *)
(* get_command_status and failed.  A dict is a record of its values with   *)
(* the set of the keys it holds.                                           *)
(***************************************************************************)
EXT_NAME_PREFIX == "extension name:"

EXT_VERS_PREFIX == "extension version:"

COMMAND_ARGS_PREFIX == "command args:"

\* t.lower() of one piece
LowerPiece(t) ==
    CASE t \in {"ERROR", "Error"} -> "error"
      [] t = "INFO"               -> "info"
      [] OTHER                    -> t

\* s.lower()
Lower(s) == [i \in 1..Len(s) |-> LowerPiece(s[i])]

RECURSIVE DropChars(_, _)
\* s[n:], n counted in characters; a cut inside a piece leaves a part of
\* the piece, written "~": it is no digit and is not empty
DropChars(s, n) ==
    IF n = 0 \/ s = <<>> THEN s
    ELSE IF Len(Head(s)) <= n THEN DropChars(Tail(s), n - Len(Head(s)))
    ELSE <<"~">> \o Tail(s)

\* int(s) for a stripped str: the value, or ValueError
PyInt(s) ==
    IF s = <<"0">> THEN [ok |-> TRUE, value |-> 0]
    ELSE IF s = <<"1">> THEN [ok |-> TRUE, value |-> 1]
    ELSE IF IntOkStr(s) THEN [ok |-> TRUE, value |-> IntOf(s[1])]
    ELSE [ok |-> FALSE, value |-> 0]

\* step 1: the exit code of the last record.  idx is found in the stripped
\* message and used on the message itself
ExitCodeOf(record) ==
    LET status_msg == Strip(record.log_msg)
        colon      == FirstIdx(status_msg, ":")
        idx        == StrLen(SubSeq(status_msg, 1, colon - 1))
    IN  IF StartsWith(status_msg, <<"exit code">>) /\ colon # 0
        THEN PyInt(Strip(DropChars(record.log_msg, idx + 1)))
        ELSE [ok |-> FALSE, value |-> 0]

\* the last of the info records whose stripped message starts with the
\* prefix (and, for the version, not with the name prefix), 0 when none
LastExtRecord(records, prefix) ==
    LET found == {i \in 1..Len(records) :
                     /\ Lower(records[i].level) = <<"info">>
                     /\ StartsWith(Strip(records[i].log_msg), <<prefix>>)}
    IN  IF found = {} THEN 0 ELSE CHOOSE i \in found : \A j \in found : j <= i

\* log_data of a record list that is not empty
CommandData(records) ==
    LET exit_code == ExitCodeOf(records[Len(records)])
        is_error(i) == Lower(records[i].level) = <<"error">>
        any_error == \E i \in 1..Len(records) : is_error(i)
        error_at  == [i \in 1..Len(records) |->
                         IF is_error(i) THEN <<records[i].log_msg>> ELSE <<>>]
        name_at   == LastExtRecord(records, EXT_NAME_PREFIX)
        vers_at   == LastExtRecord(records, EXT_VERS_PREFIX)
        args_msg  == Strip(records[1].log_msg)
        has_args  == StartsWith(Lower(args_msg), <<COMMAND_ARGS_PREFIX>>)
    IN  [keys |-> {"errors"}
                  \cup (IF any_error \/ exit_code.ok THEN {"success"} ELSE {})
                  \cup (IF name_at # 0 THEN {"extension_name"} ELSE {})
                  \cup (IF vers_at # 0 THEN {"extension_version"} ELSE {})
                  \cup (IF has_args THEN {"command_args"} ELSE {}),
         success |-> IF any_error THEN FALSE
                     ELSE exit_code.ok /\ exit_code.value = 0,
         errors |-> Join(error_at, <<>>),
         extension_name |->
             IF name_at = 0 THEN <<>>
             ELSE Strip(Tail(Strip(records[name_at].log_msg))),
         extension_version |->
             IF vers_at = 0 THEN <<>>
             ELSE Strip(Tail(Strip(records[vers_at].log_msg))),
         command_args |-> IF has_args THEN Strip(Tail(args_msg)) ELSE <<>>]

\* get_command_status()
get_command_status(data) ==
    IF data.keys = {} THEN ""
    ELSE IF "success" \notin data.keys THEN "RUNNING"
    ELSE IF data.success THEN "SUCCESS"
    ELSE "FAILURE"

\* failed()
failed(data) ==
    IF data.keys = {} THEN FALSE
    ELSE ~(IF "success" \in data.keys THEN data.success ELSE TRUE)

\* the file cannot be opened: IOError, the data is the empty dict
OpenFails ==
    /\ lpc = "loop"
    /\ line_no = 0
    /\ lpc' = "data"
    /\ log_data' = EmptyDict
    /\ UNCHANGED <<p_id, log_lines, line_no, log_record, prev_record,
                   log_record_list, command_status, command_failed>>

\* _get_command_data_from_metadata from the record list on
GetCommandData ==
    /\ lpc = "built"
    /\ lpc' = "data"
    /\ log_data' = IF log_record_list = <<>> THEN EmptyDict
                   ELSE CommandData(log_record_list)
    /\ UNCHANGED <<p_id, log_lines, line_no, log_record, prev_record,
                   log_record_list, command_status, command_failed>>

\* get_command_status() and failed() on the data
GetCommandStatus ==
    /\ lpc = "data"
    /\ lpc' = "status"
    /\ command_status' = get_command_status(log_data)
    /\ command_failed' = failed(log_data)
    /\ UNCHANGED <<p_id, log_lines, line_no, log_record, prev_record,
                   log_record_list, log_data>>

(***************************************************************************)
(* SpecData: the command data of one command log file                      *)
(***************************************************************************)
MaxDataLines == 3

ExitCodeMsgs ==
    {<<"exit code", ":", " ", code>> : code \in {"0", "1", "x"}}
    \cup {<<"exit code", " ", "0">>}

DataLineShapes ==
    {RecordLine("1234", level, <<"m">>) : level \in {"INFO", "ERROR", "Error"}}
    \cup {RecordLine("1234", "INFO", msg) : msg \in ExitCodeMsgs}
    \cup {RecordLine("1234", "ERROR", <<"exit code", ":", " ", "0">>),
          RecordLine("1234", "INFO", <<>>),
          RecordLine("1234", "INFO", <<EXT_NAME_PREFIX, " ", "a">>),
          RecordLine("1234", "INFO", <<COMMAND_ARGS_PREFIX, " ", "a">>),
          RecordLine("99", "ERROR", <<"m">>)}
    \* lines without the prefix
    \cup {<<"m", "\n">>, <<"\n">>, <<"exit code", ":", " ", "0", "\n">>}

DataFiles == UNION {[1..n -> DataLineShapes] : n \in 0..MaxDataLines}

InitData ==
    /\ NoRepeat
    /\ NoFeedback
    /\ \E lines \in DataFiles : RecordListStart(lines, IntOf("1234"))
    /\ NoData
    /\ Construct(<<>>)
    /\ NoIssue
    /\ NoListing

NextData ==
    \/ ReadLine /\ UNCHANGED <<minvars, urlvars, filevars, datavars, twicevars, feedvars>>
    \/ EndOfLines /\ UNCHANGED <<minvars, urlvars, filevars, datavars, twicevars, feedvars>>
    \/ OpenFails /\ UNCHANGED <<minvars, urlvars, filevars, twicevars, feedvars>>
    \/ GetCommandData /\ UNCHANGED <<minvars, urlvars, filevars, twicevars, feedvars>>
    \/ GetCommandStatus /\ UNCHANGED <<minvars, urlvars, filevars, twicevars, feedvars>>

SpecData == InitData /\ [][NextData]_vars

(***************************************************************************)
(* The error texts the model draws from                                    *)
(***************************************************************************)
MaxLines == 4
MaxPairLines == 3
MaxCapacity == 64

PlainLine == <<"a">>
EmptyLine == <<>>
FileLine ==
    <<" ", "File", " ", "\"", "/", "a", "/", "a", "/", "a", "/", "a", "/", "a",
      "/", "a", ".py", "\"", ",", " ", "line", " ", "1">>
MarkerLine == <<NESTED_MARKER>>
NoteLine == <<TRACEBACK_NOTE>>

LineShapes == {PlainLine, EmptyLine, FileLine, MarkerLine, NoteLine}

\* the texts of exactly n lines
Texts(n) == {Join(ls, <<"\n">>) : ls \in [1..n -> LineShapes]}

ErrorLists ==
    {<<>>}
    \cup {<<e>> : e \in UNION {Texts(n) : n \in 1..MaxLines}}
    \cup UNION {{<<e1, e2>> : e1 \in Texts(n[1]), e2 \in Texts(n[2])} :
                n \in {m \in (1..MaxPairLines) \X (1..MaxPairLines) :
                          m[1] + m[2] <= MaxPairLines}}

(***************************************************************************)
(* SpecMin: one minifier, one set_capacity                                 *)
(***************************************************************************)
InitMin ==
    /\ NoRepeat
    /\ NoFeedback
    /\ \E list \in ErrorLists : Construct(list)
    /\ NoIssue
    /\ NoListing
    /\ NoLog

CallSetCapacity ==
    /\ pc = "new"
    /\ \E c \in 0..MaxCapacity : set_capacity(c)
    /\ UNCHANGED <<urlvars, filevars, logvars, datavars, twicevars, feedvars>>

NextMin == CallSetCapacity \/ MinifierStep

SpecMin == InitMin /\ [][NextMin]_vars

(***************************************************************************)
(* Claims about the minifier (SpecMin)                                     *)
(***************************************************************************)
\* the fixed order of the strategy attempts of one call
StrategyOrder(i) ==
    CASE i = 1 -> "join"
      [] i = 2 -> "short5"
      [] i = 3 -> "short4"
      [] i = 4 -> "nested"
      [] OTHER -> "lines"

\* the errors after the first k strategies of the order, from the strategies
\* themselves
Rewritten(list, k) ==
    LET s5(e) == minify_by_shortening_file_names(e, 5)
        s4(e) == minify_by_shortening_file_names(s5(e), 4)
        ne(e) == minify_by_removing_nested_exceptions(s4(e))
    IN  [i \in 1..Len(list) |->
            CASE k <= 1 -> list[i]
              [] k = 2  -> s5(list[i])
              [] k = 3  -> s4(list[i])
              [] OTHER  -> ne(list[i])]

Min(a, b) == IF a <= b THEN a ELSE b

\* C1: whenever set_capacity(c), c >= 0, has returned, the minified error
\* string it stored is at most c characters long.
C1_StoredWithinCapacity ==
    pc = "returned" => StrLen(minified_error) <= capacity

\* a call that returned from the last resort loop
C1_Witness ==
    /\ pc = "returned"
    /\ attempts[Len(attempts)].strategy = "lines"
    /\ StrLen(minified_error) <= capacity
    /\ StrLen(Join(orig_list, <<"\n">>)) > capacity

\* C8: the strategies are attempted in the fixed order, each only when the
\* output of the one before is longer than the capacity; the returned string
\* is the output of the first attempt that fits, and the errors carry the
\* strategies up to that attempt and no later one.
C8_FirstFittingStrategy ==
    pc = "returned" =>
        LET n == Len(attempts)
        IN  /\ minified_error = attempts[n].out
            /\ StrLen(attempts[n].out) <= capacity
            /\ \A i \in 1..n : attempts[i].strategy = StrategyOrder(i)
            /\ \A i \in 1..(n - 1) : StrLen(attempts[i].out) > capacity
            /\ \A i \in 1..Min(n, 4) :
                   attempts[i].out = Join(Rewritten(call_list, i), <<"\n">>)
            /\ errors_list = Rewritten(call_list, Min(n, 4))

\* a call that returned the output of the 4-segment shortening, which differs
\* from the 5-segment one, with the nested exception marker still in place
C8_Witness ==
    /\ pc = "returned"
    /\ Len(attempts) = 3
    /\ StrLen(attempts[3].out) < StrLen(attempts[2].out)
    /\ \E i \in 1..Len(errors_list) : Contains(errors_list[i], <<".py">>)
    /\ \E i \in 1..Len(errors_list) : Contains(errors_list[i], <<NESTED_MARKER>>)

\* C9: within a call, the output of every strategy attempt is at most as
\* long as the output of the attempt before it.
C9_NeverReExpands ==
    \A i \in 2..Len(attempts) :
        StrLen(attempts[i].out) <= StrLen(attempts[i - 1].out)

\* C10: the string a call returns is never longer than the errors the
\* minifier was constructed with, joined with newlines.
C10_FinalNotLongerThanOriginal ==
    pc = "returned" =>
        StrLen(minified_error) <= StrLen(Join(orig_list, <<"\n">>))

\* a call that returned although one of its attempts had made the string
\* longer than the original
C10_Witness ==
    /\ pc = "returned"
    /\ \E i \in 1..Len(attempts) :
           StrLen(attempts[i].out) > StrLen(Join(orig_list, <<"\n">>))

\* the lines of an error that hold the nested exception marker
MarkerLines(lines) ==
    {i \in 1..Len(lines) : Contains(lines[i], <<NESTED_MARKER>>)}

\* how many of the lines are an ellipsis marker
Ellipses(lines) == Cardinality({i \in 1..Len(lines) : lines[i] = <<"...">>})

\* C11: once the nested exception strategy has rewritten the errors, an
\* error with a marker line has become: its lines before the first marker
\* line, one ellipsis marker, its last three lines, where no line of the
\* original is kept twice and the result has no more lines than the
\* original; an error without a marker line is as it was.
C11_NestedCollapsedToEllipsis ==
    (Len(attempts) >= 4 /\ attempts[4].strategy = "nested") =>
        \A i \in 1..Len(errors_list) :
            LET before   == Rewritten(call_list, 3)[i]
                lines    == SplitLines(before)
                first    == CHOOSE m \in MarkerLines(lines) :
                                \A j \in MarkerLines(lines) : m <= j
                tail     == LastThree(lines)
                after    == SplitLines(errors_list[i])
            IN  IF MarkerLines(lines) = {}
                THEN errors_list[i] = before
                ELSE /\ Len(after) >= first - 1 + 1 + Len(tail)
                     /\ SubSeq(after, 1, first - 1) = SubSeq(lines, 1, first - 1)
                     /\ after[first] = <<"...">>
                     /\ SubSeq(after, Len(after) - Len(tail) + 1, Len(after)) = tail
                     /\ Ellipses(after) = 1
                     \* the lines kept in front end before the last three start
                     /\ first - 1 <= Len(lines) - Len(tail)
                     /\ Len(after) <= Len(lines)

\* the rounds of the last resort loop the call has run
Rounds == Len(attempts) - 4

\* C12: in the last resort loop every round of _minify_by_removing_lines is
\* defined on the string the round before produced, also on one of fewer
\* than three lines, so the call never ends by raising; the rounds are
\* bounded by the number of lines the loop started from, so they come to an
\* end; and the string the loop returns is at most capacity characters long.
C12_LastResortTerminates ==
    /\ pc # "raised"
    /\ (pc = "lines" /\ OverCapacity(errors_string, capacity)) =>
           ~removing_lines_raises(errors_string)
    /\ pc = "lines" => Rounds <= Len(SplitLines(attempts[4].out))
    /\ (pc = "returned" /\ Len(attempts) > 4) =>
           StrLen(minified_error) <= capacity

(***************************************************************************)
(* SpecUrl: one _build_issue_info_tup.  The errors are log messages: a     *)
(* stripped first line, a line break, then the continuation lines as read  *)
(* from the file.                                                          *)
(***************************************************************************)
MaxUrlLines == 3

FirstLineShapes == {PlainLine, EmptyLine, MarkerLine, NoteLine}

\* the messages of exactly n lines
LogTexts(n) ==
    {Join(ls, <<"\n">>) \o <<"\n">> :
        ls \in {l \in [1..n -> LineShapes] : l[1] \in FirstLineShapes}}

UrlErrorLists ==
    {<<>>}
    \cup {<<e>> : e \in UNION {LogTexts(n) : n \in 1..MaxUrlLines}}
    \cup {<<e1, e2>> : e1 \in LogTexts(1), e2 \in LogTexts(1)}

\* the length of the other fields of the issue (command name, executed
\* command, platform, python, shell, cli version, auto_gen_comment): short,
\* close to what the URL can take, and more than the URL can take
OtherLens == {0} \cup (1336..1343) \cup {1610}

\* how much longer the other fields are once URL-encoded
OtherExpansions == {0, 2}

\* the issues the model draws from: without command data there is no
\* minifier and no failure; a command with error records has failed
Issues ==
    {i \in [list : UrlErrorLists,
            env : [has_minifier : BOOLEAN, failed : BOOLEAN, is_ext : BOOLEAN,
                   other_len : OtherLens,
                   other_enc : {l + x : l \in OtherLens, x \in OtherExpansions}]] :
        /\ i.env.other_enc - i.env.other_len \in OtherExpansions
        /\ ~i.env.has_minifier => (i.list = <<>> /\ ~i.env.failed /\ ~i.env.is_ext)
        /\ i.list # <<>> => i.env.failed}

InitUrl ==
    /\ NoRepeat
    /\ NoFeedback
    /\ \E i \in Issues :
           /\ Construct(i.list)
           /\ BuildStart(i.env)
    /\ NoListing
    /\ NoLog

NextUrl ==
    \/ GetMinifiedIssueUrl /\ UNCHANGED <<filevars, logvars, datavars, twicevars, feedvars>>
    \/ MinifierStep
    \/ FormatIssueUrl /\ UNCHANGED <<filevars, logvars, datavars, twicevars, feedvars>>
    \/ PropagateIndexError /\ UNCHANGED <<filevars, logvars, datavars, twicevars, feedvars>>
    \/ TruncateAndReturn /\ UNCHANGED <<filevars, logvars, datavars, twicevars, feedvars>>

SpecUrl == InitUrl /\ [][NextUrl]_vars

(***************************************************************************)
(* Claims about the issue URL (SpecUrl)                                    *)
(***************************************************************************)
\* C2: minification never errors out: no IndexError (or any other error)
\* leaves the minifier, whatever capacity _build_issue_info_tup hands to it,
\* so _build_issue_info_tup always goes on to return its tuple.
C2_MinificationNeverRaises ==
    pc # "raised" /\ upc # "raised"

\* C3: the URL that _build_issue_info_tup returns is at most _MAX_URL_LENGTH
\* characters long.
C3_UrlWithinBudget ==
    upc = "done" => url_len <= MAX_URL_LENGTH

\* a return after the retries were used up and the URL was cut
C3_Witness ==
    /\ upc = "done"
    /\ warned
    /\ tries = 25
    /\ url_len = MAX_URL_LENGTH
    /\ IssueUrlLen(env, minified_error) > MAX_URL_LENGTH

\* a minify-and-format attempt ends and a retry follows
RetryFollows ==
    /\ upc \in {"first_format", "retry_format"}
    /\ upc' = "retry"

\* C14: _build_issue_info_tup runs the minify-and-format step at most 26
\* times, the first try and at most 25 retries; a retry starts only when the
\* URL of the attempt before is longer than _MAX_URL_LENGTH; and the
\* capacity of a retry is smaller than the capacity of the attempt before it
\* by exactly the number of characters that attempt's URL was over the limit.
C14_BoundedShrinkingRetries ==
    /\ [](tries <= 25)
    /\ [](upc = "retry" => (tries < 25 /\ url_len > MAX_URL_LENGTH))
    /\ [][RetryFollows =>
             /\ url_capacity' < url_capacity
             /\ url_capacity - url_capacity' = url_len' - MAX_URL_LENGTH
         ]_<<upc, url_capacity, url_len, tries>>

\* a second retry is about to start, for a command with errors to minify
C14_Witness ==
    /\ upc = "retry"
    /\ tries >= 1
    /\ env.has_minifier
    /\ errors_list # <<>>
    /\ url_len > MAX_URL_LENGTH
    /\ url_capacity < MAX_URL_LENGTH

(***************************************************************************)
(* Claims about the command log files (SpecFiles is above, SpecLog)        *)
(***************************************************************************)
\* the line has the prefix, the five-field layout, and the expected process
\* id as its leading field
WellFormedRecordLine(line, pid) ==
    LET parts == SplitMax(SubSeq(line, 2, Len(line)), "|", 4)
    IN  /\ StartsWith(line, <<CMD_LOG_LINE_PREFIX>>)
        /\ Len(parts) = 5
        /\ IntOkStr(Strip(parts[1]))
        /\ IntOf(Strip(parts[1])[1]) = pid

\* C5: reading the lines of a command log file never raises, whatever the
\* lines are, and a line that is not a well-formed record never becomes a
\* record.
C5_MalformedLinesSkipped ==
    /\ lpc # "raised"
    /\ (line_no > 0 /\ log_record.kind = "record") =>
           WellFormedRecordLine(log_lines[line_no], p_id)

\* C6: _get_info_from_log_line(line, p_id) returns a record if and only if
\* the line has the prefix, the five-field layout and p_id as its leading
\* field, and returns None for every other line.
C6_RecordIffWellFormed ==
    line_no > 0 =>
        /\ log_record.kind = "record"
               <=> WellFormedRecordLine(log_lines[line_no], p_id)
        /\ log_record.kind = "None"
               <=> ~WellFormedRecordLine(log_lines[line_no], p_id)

\* the lines of the file recognized as new records
RecordLines ==
    {i \in 1..Len(log_lines) :
        get_info_from_log_line(log_lines[i], p_id).kind = "record"}

\* the k-th of them, in file order
NthRecordLine(k) ==
    CHOOSE i \in RecordLines : Cardinality({j \in RecordLines : j < i}) = k - 1

\* the lines after line i up to the next recognized line or the end
ContinuationOf(i) ==
    LET later == {j \in RecordLines : j > i}
        stop  == IF later = {} THEN Len(log_lines) + 1
                 ELSE CHOOSE j \in later : \A m \in later : j <= m
    IN  SubSeq(log_lines, i + 1, stop - 1)

\* C7: the record list built from a file has one record per recognized
\* line, in file order; a record keeps the four other fields it was parsed
\* with, and its message is the parsed message followed, in file order, by
\* exactly the unrecognized lines between it and the next recognized line;
\* the lines before the first recognized line are in no record.
C7_ContinuationsJoinLastRecord ==
    lpc = "built" =>
        /\ Len(log_record_list) = Cardinality(RecordLines)
        /\ \A k \in 1..Len(log_record_list) :
               LET i      == NthRecordLine(k)
                   parsed == get_info_from_log_line(log_lines[i], p_id)
                   record == log_record_list[k]
               IN  /\ record.p_id = parsed.p_id
                   /\ record.date_time = parsed.date_time
                   /\ record.level = parsed.level
                   /\ record.logger = parsed.logger
                   /\ record.log_msg =
                          parsed.log_msg \o Join(ContinuationOf(i), <<>>)

\* a file with a dropped first line, a record with a continuation line, and
\* a second record
C7_Witness ==
    /\ lpc = "built"
    /\ Len(log_record_list) = 2
    /\ 1 \notin RecordLines
    /\ ContinuationOf(NthRecordLine(1)) # <<>>
    /\ log_record_list[1].log_msg # log_record_list[2].log_msg

(***************************************************************************)
(* Claims about the command data (SpecData)                                *)
(***************************************************************************)
\* the record has level error
ErrorLevel(record) == Lower(record.level) = <<"error">>

\* the text after the colon of a message that reads "exit code: ...", with
\* the white space around the message and around the text left out
ExitCodeText(record) ==
    LET msg   == Strip(record.log_msg)
        colon == FirstIdx(msg, ":")
    IN  IF StartsWith(msg, <<"exit code">>) /\ colon # 0
        THEN Strip(SubSeq(msg, colon + 1, Len(msg)))
        ELSE <<>>

\* the record is an "exit code: <int>" record
ExitCodeRecord(record) == PyInt(ExitCodeText(record)).ok

\* C13: in the command data of a file with records, success is False when
\* some record has level error; otherwise, when the last record is an
\* "exit code: <int>" record, success is (exit code = 0); otherwise success
\* is absent.  get_command_status is FAILURE exactly when failed() is True,
\* SUCCESS exactly when success is True, and RUNNING exactly when there are
\* records and success is absent.
C13_ErrorRecordMeansFailed ==
    /\ (lpc \in {"data", "status"} /\ log_record_list # <<>>) =>
           LET last == log_record_list[Len(log_record_list)]
           IN  IF \E i \in 1..Len(log_record_list) :
                      ErrorLevel(log_record_list[i])
               THEN "success" \in log_data.keys /\ ~log_data.success
               ELSE IF ExitCodeRecord(last)
               THEN /\ "success" \in log_data.keys
                    /\ log_data.success = (PyInt(ExitCodeText(last)).value = 0)
               ELSE "success" \notin log_data.keys
    /\ lpc = "status" =>
           /\ (command_status = "FAILURE") = command_failed
           /\ (command_status = "SUCCESS")
                  = ("success" \in log_data.keys /\ log_data.success)
           /\ (command_status = "RUNNING")
                  = (log_record_list # <<>> /\ "success" \notin log_data.keys)

(***************************************************************************)
(* handle_feedback and _prompt_issue.  The recent command list is what     *)
(* _display_recent_commands returns: empty, or None followed by the listed *)
(* command logs; a command log is given by the issue it leads to.          *)
(***************************************************************************)
\* the entry None of the recent command list, "create a generic issue"
NoCommandLog == [kind |-> "None"]

\* what the user can type at a prompt
Answers ==
    {"q", "Q", "quit", "y", "Yes", "n", "no", "", "x", "-1", "0", "1", "2", "3"}

\* ans.lower()
LowerAnswer(a) ==
    CASE a = "Q"   -> "q"
      [] a = "Yes" -> "yes"
      [] OTHER     -> a

\* int(ans) succeeds
IntAnswerOk(a) == a \in {"-1", "0", "1", "2", "3"}

\* int(ans) where it succeeds
IntAnswer(a) ==
    CASE a = "-1" -> -1
      [] a = "0"  -> 0
      [] a = "1"  -> 1
      [] a = "2"  -> 2
      [] a = "3"  -> 3

\* ans[0].lower() for the answers the second loop accepts
ShortForm(a) ==
    CASE LowerAnswer(a) \in {"y", "yes"} -> "y"
      [] LowerAnswer(a) \in {"n", "no"}  -> "n"
      [] OTHER                           -> "q"

\* handle_feedback up to the call of _display_recent_commands
FeedbackStart ==
    /\ hpc = "display"
    /\ recent_command_list = <<>>
    /\ ans = NoAnswer
    /\ prompts = 0
    /\ built_from = -1
    /\ browser_opened = 0
    /\ thanked = FALSE

MaxRecent == 2
MaxPrompts == 3

\* the issue of _build_issue_info_tup() without a command log
GenericIssue ==
    [list |-> <<>>,
     env |-> [has_minifier |-> FALSE, failed |-> FALSE, is_ext |-> FALSE,
              other_len |-> 0, other_enc |-> 0]]

\* the command logs the model lists: a successful command, a failed command
\* whose errors fit, and a failed command of an extension whose other fields
\* leave no room for the errors
CommandLogs ==
    {[kind |-> "log", list |-> <<>>,
      env |-> [has_minifier |-> TRUE, failed |-> FALSE, is_ext |-> FALSE,
               other_len |-> 0, other_enc |-> 0]],
     [kind |-> "log", list |-> <<<<"a", "\n", "a", "\n">>>>,
      env |-> [has_minifier |-> TRUE, failed |-> TRUE, is_ext |-> FALSE,
               other_len |-> 0, other_enc |-> 0]],
     [kind |-> "log", list |-> <<<<"a", "\n">>>>,
      env |-> [has_minifier |-> TRUE, failed |-> TRUE, is_ext |-> TRUE,
               other_len |-> 1610, other_enc |-> 1610]]}

\* _display_recent_commands returns: [] when there is no command log, else
\* None and the command logs
DisplayRecentCommands ==
    /\ hpc = "display"
    /\ \E n \in 0..MaxRecent : \E logs \in [1..n -> CommandLogs] :
           recent_command_list' = IF n = 0 THEN <<>>
                                  ELSE <<NoCommandLog>> \o logs
    /\ hpc' = "prompt"
    /\ UNCHANGED <<ans, prompts, built_from, browser_opened, thanked>>

\* the ValueError of a command log (file name, log line) leaves
\* _display_recent_commands and handle_feedback
DisplayRaises ==
    /\ hpc = "display"
    /\ hpc' = "raised"
    /\ UNCHANGED <<recent_command_list, ans, prompts, built_from,
                   browser_opened, thanked>>

\* one round of the loop of _prompt_issue that is running: the prompt, the
\* answer, and the test of the loop
Prompt ==
    /\ hpc = "prompt"
    /\ prompts < MaxPrompts
    /\ prompts' = prompts + 1
    /\ \E typed \in Answers :
          IF recent_command_list # <<>>
          THEN LET max_idx == Len(recent_command_list) - 1
               IN  IF LowerAnswer(typed) \in {"q", "quit"}
                   THEN /\ ans' = [text |-> LowerAnswer(typed), number |-> -1]
                        /\ hpc' = "answered"
                   ELSE IF IntAnswerOk(typed)
                   THEN /\ ans' = [text |-> "", number |-> IntAnswer(typed)]
                        /\ hpc' = IF IntAnswer(typed) < 0
                                     \/ IntAnswer(typed) > max_idx
                                  THEN "prompt" ELSE "answered"
                   ELSE /\ ans' = NoAnswer
                        /\ hpc' = "prompt"
          ELSE IF LowerAnswer(typed) \notin {"y", "n", "yes", "no", "q"}
               THEN /\ ans' = NoAnswer
                    /\ hpc' = "prompt"
               ELSE /\ ans' = [text |-> ShortForm(typed), number |-> -1]
                    /\ hpc' = "answered"
    /\ UNCHANGED <<recent_command_list, built_from, browser_opened, thanked>>

\* EOFError or KeyboardInterrupt at the prompt: handle_feedback prints an
\* empty line and returns
PromptInterrupted ==
    /\ hpc = "prompt"
    /\ hpc' = "done"
    /\ UNCHANGED <<recent_command_list, ans, prompts, built_from,
                   browser_opened, thanked>>

\* NoTTYException at the prompt: handle_feedback raises CLIError
PromptNoTTY ==
    /\ hpc = "prompt"
    /\ hpc' = "raised"
    /\ UNCHANGED <<recent_command_list, ans, prompts, built_from,
                   browser_opened, thanked>>

\* mutant: the thank-you message is printed whatever _prompt_issue returned
ReturnFalseThanked ==
    /\ hpc = "answered"
    /\ ans.text \in {"n", "q", "quit"}
    /\ hpc' = "done"
    /\ thanked' = TRUE
    /\ UNCHANGED <<recent_command_list, ans, prompts, built_from,
                   browser_opened>>

\* _prompt_issue returns False: handle_feedback returns without the message
ReturnFalse ==
    /\ hpc = "answered"
    /\ ans.text \in {"n", "q", "quit"}
    /\ hpc' = "done"
    /\ UNCHANGED <<recent_command_list, ans, prompts, built_from,
                   browser_opened, thanked>>

\* the call of _build_issue_info_tup, up to "First try": without a command
\* log for "y" and for 0, else with recent_command_list[ans]
BuildIssue ==
    /\ hpc = "answered"
    /\ ans.text \notin {"n", "q", "quit"}
    /\ LET chosen == IF ans.text = "y" \/ ans.number = 0 THEN 0 ELSE ans.number
           issue  == IF chosen = 0 THEN GenericIssue
                     ELSE recent_command_list[chosen + 1]
       IN  /\ built_from' = chosen
           /\ errors_list' = issue.list
           /\ orig_list' = issue.list
           /\ call_list' = issue.list
           /\ capacity' = capacity
           /\ minified_error' = Join(issue.list, <<"\n">>)
           /\ errors_string' = <<>>
           /\ attempts' = <<>>
           /\ pc' = "new"
           /\ upc' = "first"
           /\ env' = issue.env
           /\ url_capacity' = MAX_URL_LENGTH
           /\ tries' = 0
           /\ url_len' = 0
           /\ warned' = FALSE
    /\ hpc' = "building"
    /\ UNCHANGED <<recent_command_list, ans, prompts, browser_opened, thanked>>

\* _build_issue_info_tup has returned: the rest of _prompt_issue, with
\* open_page_in_browser(url), and its return of True
OpenBrowser ==
    /\ hpc = "building"
    /\ upc = "done"
    /\ browser_opened' = browser_opened + 1
    /\ hpc' = "returned_true"
    /\ UNCHANGED <<recent_command_list, ans, prompts, built_from, thanked>>

\* the IndexError of the minifier leaves _prompt_issue and handle_feedback
BuildRaises ==
    /\ hpc = "building"
    /\ upc = "raised"
    /\ hpc' = "raised"
    /\ UNCHANGED <<recent_command_list, ans, prompts, built_from,
                   browser_opened, thanked>>

\* "if res: print(_MSG_THNK)" and the return of handle_feedback
PrintThanks ==
    /\ hpc = "returned_true"
    /\ thanked' = TRUE
    /\ hpc' = "done"
    /\ UNCHANGED <<recent_command_list, ans, prompts, built_from,
                   browser_opened>>

(***************************************************************************)
(* SpecFeedback: one run of handle_feedback                                *)
(***************************************************************************)
InitFeedback ==
    /\ FeedbackStart
    /\ NoRepeat
    /\ Construct(<<>>)
    /\ NoIssue
    /\ NoListing
    /\ NoLog

NextFeedback ==
    \/ DisplayRecentCommands
           /\ UNCHANGED <<minvars, urlvars, filevars, logvars, datavars, twicevars>>
    \/ DisplayRaises
           /\ UNCHANGED <<minvars, urlvars, filevars, logvars, datavars, twicevars>>
    \/ Prompt
           /\ UNCHANGED <<minvars, urlvars, filevars, logvars, datavars, twicevars>>
    \/ PromptInterrupted
           /\ UNCHANGED <<minvars, urlvars, filevars, logvars, datavars, twicevars>>
    \/ PromptNoTTY
           /\ UNCHANGED <<minvars, urlvars, filevars, logvars, datavars, twicevars>>
    \/ ReturnFalse
           /\ UNCHANGED <<minvars, urlvars, filevars, logvars, datavars, twicevars>>
    \/ BuildIssue /\ UNCHANGED <<filevars, logvars, datavars, twicevars>>
    \/ GetMinifiedIssueUrl
           /\ UNCHANGED <<filevars, logvars, datavars, twicevars, feedvars>>
    \/ MinifierStep
    \/ FormatIssueUrl
           /\ UNCHANGED <<filevars, logvars, datavars, twicevars, feedvars>>
    \/ PropagateIndexError
           /\ UNCHANGED <<filevars, logvars, datavars, twicevars, feedvars>>
    \/ TruncateAndReturn
           /\ UNCHANGED <<filevars, logvars, datavars, twicevars, feedvars>>
    \/ OpenBrowser
           /\ UNCHANGED <<minvars, urlvars, filevars, logvars, datavars, twicevars>>
    \/ BuildRaises
           /\ UNCHANGED <<minvars, urlvars, filevars, logvars, datavars, twicevars>>
    \/ PrintThanks
           /\ UNCHANGED <<minvars, urlvars, filevars, logvars, datavars, twicevars>>

SpecFeedback == InitFeedback /\ [][NextFeedback]_vars

(***************************************************************************)
(* Claims about handle_feedback (SpecFeedback)                             *)
(***************************************************************************)
\* the answer ends the prompting for a list with commands: q, quit, or an
\* integer in 0..max_idx
ValidSelection ==
    \/ ans.text \in {"q", "quit"}
    \/ ans.number \in 0..(Len(recent_command_list) - 1)

\* C15: in a run of handle_feedback the browser is opened at most once, and
\* only after a valid selection; with commands listed the prompt is
\* repeated until the answer is q, quit or an integer in 0..max_idx (or the
\* prompt is interrupted); answer
\* 0 builds the generic issue, without a command log, and answer k > 0
\* builds the issue from the k-th listed command log; after q or quit (or n
\* when no commands are listed) there is no issue and no browser; and when
\* the run has ended, the thank-you message has been printed if and only if
\* the browser was opened.
C15_BrowserOnlyAfterValidSelection ==
    /\ browser_opened <= 1
    /\ browser_opened = 1 =>
           /\ built_from >= 0
           /\ upc = "done"
           /\ IF recent_command_list # <<>>
              THEN ValidSelection /\ ans.number = built_from
              ELSE ans.text = "y" /\ built_from = 0
    /\ (recent_command_list # <<>> /\ prompts > 0) =>
           /\ hpc = "prompt" => ~ValidSelection
           /\ hpc \in {"answered", "building", "returned_true"} => ValidSelection
    /\ built_from = 0 =>
           /\ ~env.has_minifier
           /\ orig_list = <<>>
    /\ built_from > 0 =>
           /\ built_from = ans.number
           /\ env = recent_command_list[built_from + 1].env
           /\ orig_list = recent_command_list[built_from + 1].list
    /\ ans.text \in {"q", "quit", "n"} =>
           /\ built_from = -1
           /\ browser_opened = 0
           /\ ~thanked
    /\ thanked => browser_opened = 1
    /\ hpc \in {"done", "raised"} => (thanked <=> browser_opened = 1)

\* a run that ended after two answers out of range and the choice of the
\* second listed command, with the browser opened and the message printed
C15_Witness ==
    /\ hpc = "done"
    /\ prompts = 3
    /\ Len(recent_command_list) = 3
    /\ ans.number = 2
    /\ built_from = 2
    /\ browser_opened = 1
    /\ thanked

(***************************************************************************)
(* SpecTwice: one minifier, set_capacity(c) and then set_capacity(c) again *)
(***************************************************************************)
\* the second call, with the capacity of the first, on the errors as the
\* first call left them
CallSetCapacityAgain ==
    /\ pc = "returned"
    /\ ~repeated
    /\ repeated' = TRUE
    /\ first_minified' = minified_error
    /\ set_capacity(capacity)
    /\ UNCHANGED <<urlvars, filevars, logvars, datavars, feedvars>>

InitTwice == InitMin

NextTwice == CallSetCapacity \/ MinifierStep \/ CallSetCapacityAgain

SpecTwice == InitTwice /\ [][NextTwice]_vars

\* C16: a second set_capacity(c) on the same minifier returns, and stores
\* the same minified string as the first set_capacity(c) did.
C16_SetCapacityIdempotent ==
    repeated =>
        /\ pc # "raised"
        /\ pc = "returned" => minified_error = first_minified

====
